---------------------------- MODULE Spec2Model ----------------------------
(***************************************************************************)
(* The pi adapter: the bridge between the Codex app-server protocol (the   *)
(* client, on stdin/stdout) and the pi coding agent's RPC (a subprocess).  *)
(*                                                                         *)
(* Strings the code inspects (model ids, message text) are sequences of    *)
(* tokens; "/" and "\n" are tokens of their own, so includes, split, join  *)
(* and startsWith are computed on them as the code computes them.          *)
(* Identifiers are integers: uuidv4() is a counter, Null is 0, and the     *)
(* literal ids of the code are the named numbers below.                    *)
(***************************************************************************)
EXTENDS Integers, Sequences, FiniteSets, TLC

\* ------------------------------------------------------------------ bounds
MaxReq == 2          \* client requests in one behaviour
MaxProcs == 2        \* agent subprocesses spawned in one behaviour
MaxEvents == 2       \* agent events translated in one behaviour
MaxItemReq == 1      \* client requests in a behaviour of the item lifecycle
MaxItemEvents == 3   \* agent events in a behaviour of the item lifecycle
MaxDiffReq == 2      \* turn/start requests in a behaviour of the turn diff
MaxDiffEvents == 3   \* agent events in a behaviour of the turn diff
MaxModelReq == 2     \* client requests in a behaviour of the model registry
MaxThreadReq == 3    \* client requests in a behaviour of the thread methods
MaxEdgeReq == 2      \* client requests in a behaviour of the edge cases
MaxEdgeEvents == 2   \* agent events and stray responses in such a behaviour
MaxToolReq == 1      \* client requests in a behaviour of the tool calls
MaxToolEvents == 3   \* agent events in a behaviour of the tool calls
MaxHookRequests == 4 \* request ids useGitHubIssues hands out in one behaviour

\* --------------------------------------------------- literals of the code
Null == 0
ErrGeneric == -32000
ErrMethodNotFound == -32601
ErrInvalidParams == -32602
UuidBase == 1000     \* uuidv4() values are UuidBase + n: never a literal id
DefaultThreadId == 1 \* the thread id 'default'
ThinkingId == 2      \* the item id 'thinking'
MsgZeroId == 3       \* the item id 'msg-0'

SLASH == "/"
NL == "\n"
InitialModel == <<"claude", "-sonnet-4-20250514">>
InitialProvider == <<"anthropic">>
ProcessCwd == "/proc"

VARIABLES
    piProcess,          \* the agent handle: a process id, or Null
    currentThreadId,
    currentTurnId,
    currentMessageId,
    isProcessing,
    pendingRequests,    \* command id -> the continuation awaiting its response
    currentModel,
    currentProvider,
    cwd,
    toolArgsCache,
    accumulatedDiff,
    modelProviderMap,
    uuid,               \* number of uuidv4() calls so far
    handlers,           \* request id -> the activation of handleCodexRequest
    procs,              \* running agent subprocesses: process id -> spawn cwd
    nextProc,           \* number of subprocesses spawned so far
    inbox,              \* process id -> commands it has read and not answered
    nEvents,            \* number of agent events translated so far
    rx,                 \* the input (agent line or exit, probe outcome, client
                        \* line) the last step handled
    io,                 \* the lines written by the last step, in program order
    responded,          \* request id -> number of responses written with it
    announced,          \* turn ids announced by a turn/start response
    notified,           \* turn ids carried by a notification
    inflight,           \* announced turns with no terminal outcome yet
    openItems,          \* item ids started and not completed since
    lastDiff,           \* the last turn/diff/updated payload since turn/started
    itemsSeen,          \* ids of the message and reasoning items started so far
    hook,               \* useGitHubIssues: its props, state and refs
    fetches,            \* the getGitHubIssues calls that have not settled
    issued              \* the id of the request refresh issued last

vars == <<piProcess, currentThreadId, currentTurnId, currentMessageId,
          isProcessing, pendingRequests, currentModel, currentProvider, cwd,
          toolArgsCache, accumulatedDiff, modelProviderMap, uuid, handlers,
          procs, nextProc, inbox, nEvents, rx, io, responded, announced,
          notified, inflight, openItems, lastDiff, itemsSeen,
          hook, fetches, issued>>

hookVars == <<hook, fetches, issued>>

\* useGitHubIssues: the state of the hook; error null is the empty string here.
emptyState == [issues |-> <<>>, isLoading |-> FALSE, error |-> <<>>]

\* The component before its first render
Unmounted ==
    [mounted |-> FALSE, activeWorkspace |-> Null, enabled |-> FALSE,
     state |-> emptyState, requestIdRef |-> 0, workspaceIdRef |-> Null]

\* Request ids: enough of them for every specification below
ReqIds == 1..(MaxReq + MaxThreadReq)

\* The session state as one value, threaded through the code of a step.
Session ==
    [piProcess |-> piProcess, currentThreadId |-> currentThreadId,
     currentTurnId |-> currentTurnId, currentMessageId |-> currentMessageId,
     isProcessing |-> isProcessing, pendingRequests |-> pendingRequests,
     currentModel |-> currentModel, currentProvider |-> currentProvider,
     cwd |-> cwd, toolArgsCache |-> toolArgsCache,
     accumulatedDiff |-> accumulatedDiff,
     modelProviderMap |-> modelProviderMap, uuid |-> uuid,
     handlers |-> handlers, procs |-> procs, nextProc |-> nextProc,
     inbox |-> inbox, io |-> <<>>]

\* ------------------------------------------------------------ small helpers

\* f with key k bound to v (Map.set)
MapSet(f, k, v) == [x \in DOMAIN f \cup {k} |-> IF x = k THEN v ELSE f[x]]
\* f without key k (Map.delete)
MapDelete(f, k) == [x \in DOMAIN f \ {k} |-> f[x]]
EmptyMap == [x \in {} |-> Null]

\* uuidv4(): the value the next call returns, and the session after it
NextUuid(s) == UuidBase + s.uuid + 1
TakeUuid(s) == [s EXCEPT !.uuid = @ + 1]

\* --------------------------------------------------- strings as token lists
\* s.includes(tok)
Includes(str, tok) == \E i \in 1..Len(str) : str[i] = tok

\* s.startsWith(tok), for a prefix that is one token
StartsWith(str, tok) == Len(str) > 0 /\ str[1] = tok

\* s.split(sep): the pieces between the separators (always at least one)
RECURSIVE Split(_, _)
Split(str, sep) ==
    IF ~Includes(str, sep) THEN <<str>>
    ELSE LET i == CHOOSE k \in 1..Len(str) :
                      str[k] = sep /\ \A j \in 1..(k - 1) : str[j] # sep
         IN  <<SubSeq(str, 1, i - 1)>> \o Split(SubSeq(str, i + 1, Len(str)), sep)

\* parts.join(sep), for a separator of several tokens and of one
RECURSIVE JoinWith(_, _)
JoinWith(parts, sep) ==
    IF parts = <<>> THEN <<>>
    ELSE IF Len(parts) = 1 THEN parts[1]
    ELSE parts[1] \o sep \o JoinWith(Tail(parts), sep)

Join(parts, sep) == JoinWith(parts, <<sep>>)

\* arr.filter(pred) on a sequence, for the block type tests of the code
RECURSIVE FilterType(_, _)
FilterType(blocks, type) ==
    IF blocks = <<>> THEN <<>>
    ELSE IF Head(blocks).type = type
         THEN <<Head(blocks)>> \o FilterType(Tail(blocks), type)
         ELSE FilterType(Tail(blocks), type)

TextsOf(blocks) == [i \in 1..Len(blocks) |-> blocks[i].text]

\* ------------------------------------------------------------ output helpers
\* A response line always has an id; a notification line has no id field.
ResponseLine(id, result, error) ==
    IF error # Null
    THEN [ch |-> "out", kind |-> "response", id |-> id, error |-> error]
    ELSE [ch |-> "out", kind |-> "response", id |-> id, result |-> result]

NotificationLine(method, params) ==
    [ch |-> "out", kind |-> "notification", method |-> method, params |-> params]

sendCodexResponse(s, id, result, error) ==
    [s EXCEPT !.io = Append(@, ResponseLine(id, result, error))]

sendCodexNotification(s, method, params) ==
    [s EXCEPT !.io = Append(@, NotificationLine(method, params))]

IsResponse(l) == l.ch = "out" /\ l.kind = "response"
IsResult(l) == IsResponse(l) /\ "result" \in DOMAIN l
IsError(l) == IsResponse(l) /\ "error" \in DOMAIN l
IsNotification(l) == l.ch = "out" /\ l.kind = "notification"
IsCommand(l) == l.ch = "pi"
IsCommandOf(l, type) == IsCommand(l) /\ l.cmd.type = type

\* ------------------------------------------------------------- sendPiCommand
\* The promise of sendPiCommand: rejected at once when there is no process,
\* else registered under a fresh id with the continuation k that awaits it and
\* written to the stdin of the process the handle names.
CommandWritten(s, command) ==
    [ch |-> "pi", kind |-> "command", proc |-> s.piProcess,
     cmd |-> [command EXCEPT !.id = NextUuid(s)]]

sendPiCommand(s, command, k) ==
    IF s.piProcess = Null
    THEN [ok |-> FALSE, s |-> s]
    ELSE LET id == NextUuid(s)
             line == CommandWritten(s, command)
             s1 == TakeUuid(s)
         IN  [ok |-> TRUE,
              s |-> [s1 EXCEPT
                       !.pendingRequests = MapSet(@, id, k),
                       !.io = Append(@, line),
                       !.inbox = [@ EXCEPT ![s.piProcess] =
                                    @ \cup {[id |-> id, type |-> command.type]}]]]

Cmd(type) == [id |-> Null, type |-> type]
SetModelCmd(provider, modelId) ==
    [id |-> Null, type |-> "set_model", provider |-> provider, modelId |-> modelId]
PromptCmd(message) == [id |-> Null, type |-> "prompt", message |-> message]

\* The continuation stored with a pending command: the request whose handler
\* awaits it (Null for a promise that only has a .catch) and the await's place.
Cont(req, at) == [req |-> req, at |-> at]

\* The handler of request r leaves the code (break or return).
Finish(s, r) == [s EXCEPT !.handlers[r].pc = "done"]
Suspend(s, r, pc) == [s EXCEPT !.handlers[r].pc = pc]

\* The catch clause of handleCodexRequest.
CatchError(s, r) ==
    Finish(sendCodexResponse(s, r, Null, ErrGeneric), r)

\* -------------------------------------------------------------- the router
\* turn/start, the model parameter: (provider, modelId) as the code parses it.
GuessProvider(model) ==
    IF StartsWith(model, "claude") THEN <<"anthropic">>
    ELSE IF StartsWith(model, "gpt") \/ StartsWith(model, "o1")
            \/ StartsWith(model, "o3") THEN <<"openai">>
    ELSE IF StartsWith(model, "gemini") THEN <<"google">>
    ELSE IF StartsWith(model, "mistral") \/ StartsWith(model, "codestral")
            \/ StartsWith(model, "devstral") THEN <<"mistral">>
    ELSE IF StartsWith(model, "grok") \/ Includes(model, "pickle")
            \/ Includes(model, "glm") \/ Includes(model, "minimax")
         THEN <<"opencode">>
    ELSE <<"anthropic">>

\* A slip: the composite id is split at its last separator.
ParseModel_SplitLast(map, model) ==
    IF Includes(model, SLASH)
    THEN LET parts == Split(model, SLASH)
         IN  [provider |-> Join(SubSeq(parts, 1, Len(parts) - 1), SLASH),
              modelId |-> parts[Len(parts)]]
    ELSE [provider |-> GuessProvider(model), modelId |-> model]

ParseModel(map, model) ==
    IF Includes(model, SLASH)
    THEN LET parts == Split(model, SLASH)
         IN  [provider |-> parts[1], modelId |-> Join(Tail(parts), SLASH)]
    ELSE LET cached == IF model \in DOMAIN map THEN map[model] ELSE <<>>
         IN  [provider |-> IF cached # <<>> THEN cached ELSE GuessProvider(model),
              modelId |-> model]

\* turn/start: the text of the input blocks of kind text, joined by newlines
MessageOf(input) == Join(TextsOf(FilterType(input, "text")), NL)

TurnResult(s) ==
    [turn |-> [id |-> s.currentTurnId, items |-> <<>>, status |-> "inProgress"]]

\* A slip: the prompt is dispatched before the response is written.
TurnStartRespond_PromptFirst(s, r) ==
    LET sent == sendPiCommand(s, PromptCmd(s.handlers[r].message),
                              Cont(Null, "prompt"))
    IN  Finish(sendCodexResponse(sent.s, r, TurnResult(sent.s), Null), r)

\* A slip: the handler itself announces the turn to the client.
TurnStartRespond_Notifies(s, r) ==
    LET s1 == sendCodexResponse(s, r, TurnResult(s), Null)
        s2 == sendCodexNotification(s1, "turn/started",
                  [turn |-> [id |-> s.currentTurnId,
                             threadId |-> s.currentThreadId,
                             status |-> "inProgress"]])
        sent == sendPiCommand(s2, PromptCmd(s.handlers[r].message),
                              Cont(Null, "prompt"))
    IN  Finish(sent.s, r)

\* turn/start from "Send response immediately" on: the response, then the
\* prompt command, whose promise only has a .catch.
TurnStartRespond(s, r) ==
    LET s1 == sendCodexResponse(s, r, TurnResult(s), Null)
        sent == sendPiCommand(s1, PromptCmd(s.handlers[r].message),
                              Cont(Null, "prompt"))
    IN  Finish(sent.s, r)

\* turn/start, "Update model if specified"
TurnStartSetModel(s, r, model) ==
    LET parsed == ParseModel(s.modelProviderMap, model)
        s1 == [s EXCEPT !.currentModel = model,
                        !.currentProvider = parsed.provider]
        sent == sendPiCommand(s1, SetModelCmd(parsed.provider, parsed.modelId),
                              Cont(r, "turn_set_model"))
    IN  IF sent.ok THEN Suspend(sent.s, r, "await") ELSE CatchError(sent.s, r)

HandleTurnStart(s, r) ==
    LET p == s.handlers[r].params
        s1 == IF p.threadId # Null THEN [s EXCEPT !.currentThreadId = p.threadId]
              ELSE IF s.currentThreadId # Null THEN s
              ELSE [TakeUuid(s) EXCEPT !.currentThreadId = NextUuid(s)]
        s2 == [TakeUuid(s1) EXCEPT !.currentTurnId = NextUuid(s1)]
        message == MessageOf(p.input)
        s3 == [s2 EXCEPT !.handlers[r].message = message]
    IN  IF message = <<>>
        THEN Finish(sendCodexResponse(s3, r, Null, ErrGeneric), r)
        ELSE IF p.model # <<>> /\ p.model # s3.currentModel
        THEN TurnStartSetModel(s3, r, p.model)
        ELSE TurnStartRespond(s3, r)

HandleInitialize(s, r) ==
    Finish(sendCodexResponse(s, r,
        [protocolVersion |-> "2.0",
         capabilities |-> [threads |-> TRUE, turns |-> TRUE, models |-> TRUE]],
        Null), r)

HandleThreadStart(s, r) ==
    LET p == s.handlers[r].params
        s1 == [TakeUuid(s) EXCEPT
                 !.currentThreadId = NextUuid(s),
                 !.cwd = IF p.cwd # "" THEN p.cwd ELSE ProcessCwd]
        sent == sendPiCommand(s1, Cmd("new_session"), Cont(Null, "new_session"))
        s2 == sent.s
    IN  Finish(sendCodexResponse(s2, r,
            [thread |-> [id |-> s2.currentThreadId, name |-> "New Thread"]],
            Null), r)

HandleThreadResume(s, r) ==
    LET p == s.handlers[r].params
        s1 == IF p.threadId # Null THEN [s EXCEPT !.currentThreadId = p.threadId]
              ELSE [TakeUuid(s) EXCEPT !.currentThreadId = NextUuid(s)]
    IN  Finish(sendCodexResponse(s1, r,
            [thread |-> [id |-> s1.currentThreadId, items |-> <<>>,
                         status |-> "ready"]],
            Null), r)

HandleThreadList(s, r) ==
    Finish(sendCodexResponse(s, r,
        [threads |-> IF s.currentThreadId # Null
                     THEN <<[id |-> s.currentThreadId, name |-> "Current Session"]>>
                     ELSE <<>>],
        Null), r)

\* A slip: archiving is refused when there is no current thread.
HandleThreadArchive_Strict(s, r) ==
    IF s.currentThreadId = Null THEN CatchError(s, r)
    ELSE Finish(sendCodexResponse([s EXCEPT !.currentThreadId = Null], r,
                                  [success |-> TRUE], Null), r)

HandleThreadArchive(s, r) ==
    Finish(sendCodexResponse([s EXCEPT !.currentThreadId = Null], r,
                             [success |-> TRUE], Null), r)

\* turn/interrupt and thread/interrupt, up to the await of the abort command
HandleInterrupt(s, r) ==
    LET sent == sendPiCommand(s, Cmd("abort"), Cont(r, "abort"))
    IN  IF sent.ok THEN Suspend(sent.s, r, "await") ELSE CatchError(sent.s, r)

\* turn/interrupt after the abort command was acknowledged
InterruptRespond(s, r) ==
    Finish(sendCodexResponse([s EXCEPT !.isProcessing = FALSE], r,
                             [success |-> TRUE], Null), r)

\* model/list: the composite id `${m.provider}/${m.id}`
CompositeId(m) == m.provider \o <<SLASH>> \o m.id

RECURSIVE RegisterModels(_, _)
RegisterModels(map, models) ==
    IF models = <<>> THEN map
    ELSE RegisterModels(MapSet(map, CompositeId(Head(models)), Head(models).provider),
                        Tail(models))

ModelEntry(s, m) ==
    [id |-> CompositeId(m), model |-> m.id, provider |-> m.provider,
     displayName |-> IF m.name # <<>> THEN m.name ELSE m.id,
     supportedReasoningEfforts |->
         IF m.reasoning THEN <<"low", "medium", "high">> ELSE <<"default">>,
     defaultReasoningEffort |-> IF m.reasoning THEN "medium" ELSE "default",
     isDefault |-> CompositeId(m) = s.currentModel,
     backend |-> "pi"]

FallbackEntry(id, name, isDefault) ==
    [id |-> id, model |-> id, displayName |-> name,
     supportedReasoningEfforts |-> <<"default">>,
     defaultReasoningEffort |-> "default", isDefault |-> isDefault,
     backend |-> "claude"]

FallbackModels ==
    <<FallbackEntry(<<"claude", "-opus-4-20250514">>, <<"Claude Opus 4">>, FALSE),
      FallbackEntry(<<"claude", "-sonnet-4-20250514">>, <<"Claude Sonnet 4">>, TRUE),
      FallbackEntry(<<"claude", "-3-5-sonnet-20241022">>, <<"Claude 3.5 Sonnet">>, FALSE)>>

\* A slip: the failure of get_available_models reaches the outer catch.
ModelListFallback_Error(s, r) == CatchError(s, r)

\* model/list, the catch of its own try: "Fallback to hardcoded list"
ModelListFallback(s, r) ==
    Finish(sendCodexResponse(s, r, [data |-> FallbackModels], Null), r)

HandleModelList(s, r) ==
    LET sent == sendPiCommand(s, Cmd("get_available_models"), Cont(r, "get_models"))
    IN  IF sent.ok THEN Suspend(sent.s, r, "await") ELSE ModelListFallback(sent.s, r)

\* model/list after the agent answered with its models
ModelListRespond(s, r, models) ==
    LET s1 == [s EXCEPT !.modelProviderMap = RegisterModels(@, models)]
    IN  Finish(sendCodexResponse(s1, r,
            [data |-> [i \in 1..Len(models) |-> ModelEntry(s1, models[i])]],
            Null), r)

HandleSkillsList(s, r) ==
    Finish(sendCodexResponse(s, r, [skills |-> <<>>], Null), r)

\* account/rateLimits: suspended in fetchClaudeRateLimits
\* fetchClaudeRateLimits: the shape built from the usage the API returned;
\* JSON null is Null, an absent window is the empty sequence of the usage
Window(w, minutes) ==
    IF w = <<>> THEN <<>>
    ELSE <<[usedPercent |-> w[1].utilization, resetsAt |-> w[1].resets_at,
            windowMinutes |-> minutes]>>

RateLimitsOf(usage) ==
    [primary |-> Window(usage.five_hour, 5 * 60),
     secondary |-> Window(usage.seven_day, 7 * 24 * 60),
     credits |-> [hasCredits |-> usage.extra_enabled, unlimited |-> FALSE]]

\* A slip: the probe's failure reaches the outer catch.
RateLimitsFailed_Error(s, r) == CatchError(s, r)

\* account/rateLimits, its catch: "Return empty/placeholder on error"
RateLimitsFailed(s, r) ==
    Finish(sendCodexResponse(s, r,
        [primary |-> Null, secondary |-> Null, credits |-> Null], Null), r)

\* account/rateLimits after the probe returned
RateLimitsRespond(s, r, usage) ==
    Finish(sendCodexResponse(s, r, [rateLimits |-> RateLimitsOf(usage)], Null), r)

\* account/rateLimits, up to the first await of the probe (the credential files)
HandleRateLimits(s, r) == Suspend(s, r, "creds")

\* fetchClaudeRateLimits after loadClaudeCredentials: no credentials and an
\* expired token throw, a valid token goes on to the HTTPS query
CredentialsLoaded(s, r, creds) ==
    IF creds \in {"none", "expired"} THEN RateLimitsFailed(s, r)
    ELSE Suspend(s, r, "fetch")

\* fetchClaudeRateLimits after fetch: a rejected fetch, a non-2xx status and
\* an undecodable body throw
FetchDone(s, r, http, usage) ==
    IF http = "ok" THEN RateLimitsRespond(s, r, usage) ELSE RateLimitsFailed(s, r)

HandleRespondToRequest(s, r) ==
    Finish(sendCodexResponse(s, r, [success |-> TRUE], Null), r)

\* auth/status: suspended in readFile
HandleAuthStatus(s, r) == Suspend(s, r, "readfile")

HandleAuthLogin(s, r) ==
    IF s.handlers[r].params.provider = ""
    THEN Finish(sendCodexResponse(s, r, Null, ErrInvalidParams), r)
    ELSE Finish(sendCodexResponse(s, r,
            [success |-> FALSE, provider |-> s.handlers[r].params.provider],
            Null), r)

HandleUnknown(s, r) ==
    Finish(sendCodexResponse(s, r, Null, ErrMethodNotFound), r)

\* The switch of handleCodexRequest, entered when ensurePiProcess has returned.
Dispatch(s, r) ==
    LET method == s.handlers[r].method
    IN  CASE method = "initialize" -> HandleInitialize(s, r)
          [] method = "thread/start" -> HandleThreadStart(s, r)
          [] method = "thread/resume" -> HandleThreadResume(s, r)
          [] method = "thread/list" -> HandleThreadList(s, r)
          [] method = "thread/archive" -> HandleThreadArchive(s, r)
          [] method = "turn/start" -> HandleTurnStart(s, r)
          [] method \in {"turn/interrupt", "thread/interrupt"} -> HandleInterrupt(s, r)
          [] method = "model/list" -> HandleModelList(s, r)
          [] method = "skills/list" -> HandleSkillsList(s, r)
          [] method \in {"account/rateLimits", "account/rateLimits/read"} ->
                HandleRateLimits(s, r)
          [] method = "codex/respondToRequest" -> HandleRespondToRequest(s, r)
          [] method = "auth/status" -> HandleAuthStatus(s, r)
          [] method = "auth/login" -> HandleAuthLogin(s, r)
          [] OTHER -> HandleUnknown(s, r)

\* ----------------------------------------------------------- the translator
\* rec.field, or dflt when the field is absent (undefined)
Opt(rec, field, dflt) == IF field \in DOMAIN rec THEN rec[field] ELSE dflt

\* a || b on strings: the first that is not empty
Or2(a, b) == IF a # <<>> THEN a ELSE b

\* content?.find(c => c.type === 'text'), as the text it holds ('' when none)
FirstText(content) ==
    LET texts == FilterType(content, "text")
    IN  IF texts = <<>> THEN <<>> ELSE Head(texts).text

IsCommandTool(toolName) == toolName \in {"bash", "Bash"}
IsFileChangeTool(toolName) == toolName \in {"edit", "Edit", "write", "Write"}
\* toolName.toLowerCase() === 'write' ? 'create' : 'edit'
ChangeKind(toolName) == IF toolName \in {"write", "Write"} THEN "create" ELSE "edit"

ArgCommand(args) == Or2(Opt(args, "command", <<>>), Opt(args, "cmd", <<>>))
ArgFilePath(args) ==
    Or2(Opt(args, "path", <<>>),
        Or2(Opt(args, "file_path", <<>>),
            Or2(Opt(args, "file", <<>>), Opt(args, "filename", <<>>))))
ArgPattern(args) == Opt(args, "pattern", <<>>)

\* A slip: whatever is not a shell command is shown as a file change.
ToolType_FileByDefault(toolName) ==
    IF IsCommandTool(toolName) THEN "commandExecution" ELSE "fileChange"

ToolType(toolName) ==
    IF IsCommandTool(toolName) THEN "commandExecution"
    ELSE IF IsFileChangeTool(toolName) THEN "fileChange"
    ELSE "commandExecution"

\* displayCmd of a read-like tool
DisplayCmd(toolName, args) ==
    LET filePath == ArgFilePath(args)
        pattern == ArgPattern(args)
        dot == Or2(filePath, <<".">>)
    IN  IF toolName \in {"read", "Read"} THEN <<"read ">> \o filePath
        ELSE IF toolName = "ls" THEN <<"ls ">> \o dot
        ELSE IF toolName = "find"
             THEN <<"find \"">> \o pattern \o <<"\" in ">> \o dot
        ELSE IF toolName = "grep"
             THEN <<"grep /">> \o pattern \o <<"/ in ">> \o dot
        ELSE IF filePath # <<>> THEN <<toolName, " ">> \o filePath
        ELSE <<toolName>>

\* detail: what the item shows for the tool call
ToolDetail(toolName, args) ==
    IF IsCommandTool(toolName) THEN ArgCommand(args)
    ELSE IF IsFileChangeTool(toolName) THEN ArgFilePath(args)
    ELSE DisplayCmd(toolName, args)

\* The item of item/started (tool_execution_start); absent fields are undefined
ToolStartedItem(s, toolCallId, toolName, args) ==
    IF IsFileChangeTool(toolName)
    THEN [id |-> toolCallId, type |-> ToolType(toolName), cwd |-> s.cwd,
          status |-> "inProgress",
          changes |-> <<[path |-> ArgFilePath(args), kind |-> ChangeKind(toolName)]>>]
    ELSE [id |-> toolCallId, type |-> ToolType(toolName), cwd |-> s.cwd,
          status |-> "inProgress", command |-> ToolDetail(toolName, args)]

\* The item of item/completed (tool_execution_end)
ToolCompletedItem(s, toolCallId, toolName, args, text, diff, isError) ==
    LET base == [id |-> toolCallId, type |-> ToolType(toolName), cwd |-> s.cwd,
                 aggregatedOutput |-> text,
                 exitCode |-> IF isError THEN 1 ELSE 0,
                 status |-> IF isError THEN "error" ELSE "completed"]
    IN  IF IsFileChangeTool(toolName)
        THEN base @@ [changes |-> <<[path |-> ArgFilePath(args),
                                     kind |-> ChangeKind(toolName),
                                     diff |-> diff]>>]
        ELSE base @@ [command |-> ToolDetail(toolName, args)]

\* fileContent.split('\n').map(l => '+' + l).join('\n')
PlusLines(fileContent) ==
    LET lines == Split(fileContent, NL)
    IN  Join([i \in 1..Len(lines) |-> <<"+">> \o lines[i]], NL)

\* The fragment tool_execution_end appends for a file change (<<>>: none)
DiffFragment(filePath, diff, fileContent) ==
    IF diff # <<>>
    THEN <<"--- a/">> \o filePath \o <<NL, "+++ b/">> \o filePath \o <<NL>> \o diff
    ELSE IF fileContent # <<>>
    THEN <<"--- /dev/null", NL, "+++ b/">> \o filePath
         \o <<NL, "@@ -0,0 +1,", ToString(Len(Split(fileContent, NL))), " @@", NL>>
         \o PlusLines(fileContent)
    ELSE <<>>

\* accumulatedDiff.join('\n\n')
JoinedDiff(fragments) == JoinWith(fragments, <<NL, NL>>)

EmptyArgs == [x \in {} |-> <<>>]

\* A slip: the turn is named by its thread.
TurnOf_ThreadAsId(turnId, threadId, status) ==
    [turn |-> [id |-> threadId, threadId |-> threadId, status |-> status]]

TurnOf(turnId, threadId, status) ==
    [turn |-> [id |-> turnId, threadId |-> threadId, status |-> status]]

ErrorParams(threadId, turnId, message, willRetry) ==
    [threadId |-> threadId, turnId |-> turnId, error |-> [message |-> message],
     willRetry |-> willRetry]

TranslateMessageUpdate(s, event, threadId) ==
    IF "assistantMessageEvent" \notin DOMAIN event THEN s
    ELSE
    LET ae == event.assistantMessageEvent
    IN  CASE ae.type = "text_delta" ->
               sendCodexNotification(s, "item/agentMessage/delta",
                   [threadId |-> threadId,
                    itemId |-> IF s.currentMessageId # Null
                               THEN s.currentMessageId ELSE MsgZeroId,
                    delta |-> Opt(ae, "delta", <<>>)])
          [] ae.type = "thinking_start" ->
               sendCodexNotification(s, "item/started",
                   [threadId |-> threadId,
                    item |-> [id |-> ThinkingId, type |-> "reasoning",
                              status |-> "inProgress"]])
          [] ae.type = "thinking_delta" ->
               sendCodexNotification(s, "item/reasoning/textDelta",
                   [threadId |-> threadId, itemId |-> ThinkingId,
                    delta |-> Opt(ae, "delta", <<>>)])
          [] ae.type = "thinking_end" ->
               sendCodexNotification(s, "item/completed",
                   [threadId |-> threadId,
                    item |-> [id |-> ThinkingId, type |-> "reasoning",
                              status |-> "completed",
                              content |-> Opt(ae, "content", <<>>),
                              summary |-> Opt(ae, "content", <<>>)]])
          [] ae.type = "toolcall_end" /\ "toolCall" \in DOMAIN ae ->
               sendCodexNotification(s, "item/started",
                   [threadId |-> threadId,
                    item |-> [id |-> ae.toolCall.id, type |-> "commandExecution",
                              name |-> ae.toolCall.name,
                              arguments |-> ae.toolCall.arguments,
                              status |-> "inProgress"]])
          [] OTHER -> s

\* A slip: a message_end with no live message falls back to a literal id.
MessageEndId_Literal(s) ==
    IF s.currentMessageId = Null THEN MsgZeroId ELSE s.currentMessageId

\* message_end: currentMessageId || uuidv4()
MessageEndId(s) ==
    IF s.currentMessageId = Null THEN NextUuid(s) ELSE s.currentMessageId

TranslateMessageEnd(s, event, threadId) ==
    IF event.message.role # "assistant" THEN s
    ELSE
    LET message == event.message
        text == Join(TextsOf(FilterType(Opt(message, "content", <<>>), "text")), NL)
        fresh == s.currentMessageId = Null
        messageId == MessageEndId(s)
        s1 == [(IF fresh THEN TakeUuid(s) ELSE s) EXCEPT !.currentMessageId = Null]
        s2 == sendCodexNotification(s1, "item/completed",
                  [threadId |-> threadId,
                   item |-> [id |-> messageId, type |-> "agentMessage",
                             text |-> text, status |-> "completed"]])
    IN  IF "usage" \in DOMAIN message
        THEN sendCodexNotification(s2, "thread/tokenUsage/updated",
                 [threadId |-> threadId, tokenUsage |-> message.usage])
        ELSE s2

TranslateToolStart(s, event, threadId) ==
    LET args == Opt(event, "args", EmptyArgs)
        entry == IF "args" \in DOMAIN event
                 THEN [toolName |-> event.toolName, args |-> event.args]
                 ELSE [toolName |-> event.toolName]
        s1 == [s EXCEPT !.toolArgsCache = MapSet(@, event.toolCallId, entry)]
    IN  sendCodexNotification(s1, "item/started",
            [threadId |-> threadId,
             item |-> ToolStartedItem(s1, event.toolCallId, event.toolName, args)])

TranslateToolUpdate(s, event, threadId) ==
    LET text == FilterType(Opt(Opt(event, "partialResult", EmptyArgs),
                               "content", <<>>), "text")
    IN  IF text # <<>>
        THEN sendCodexNotification(s, "item/commandExecution/outputDelta",
                 [threadId |-> threadId, itemId |-> event.toolCallId,
                  delta |-> Head(text).text])
        ELSE s

\* A slip: the new fragment is put in front of the accumulated ones.
PushFragment_Front(acc, fragment) == <<fragment>> \o acc

\* accumulatedDiff.push(fragment)
PushFragment(acc, fragment) == Append(acc, fragment)

TranslateToolEnd(s, event, threadId) ==
    LET id == event.toolCallId
        toolName == event.toolName
        cache == s.toolArgsCache
        args == IF id \in DOMAIN cache /\ "args" \in DOMAIN cache[id]
                THEN cache[id].args ELSE Opt(event, "args", EmptyArgs)
        result == Opt(event, "result", EmptyArgs)
        text == FirstText(Opt(result, "content", <<>>))
        diff == Opt(Opt(result, "details", EmptyArgs), "diff", <<>>)
        s1 == [s EXCEPT !.toolArgsCache = MapDelete(@, id)]
        s2 == sendCodexNotification(s1, "item/completed",
                  [threadId |-> threadId,
                   item |-> ToolCompletedItem(s1, id, toolName, args, text, diff,
                                              event.isError)])
        fragment == DiffFragment(ArgFilePath(args), diff, text)
        s3 == IF fragment # <<>>
              THEN [s2 EXCEPT !.accumulatedDiff = PushFragment(@, fragment)] ELSE s2
    IN  IF ~IsFileChangeTool(toolName) THEN s2
        ELSE IF s3.accumulatedDiff # <<>>
        THEN sendCodexNotification(s3, "turn/diff/updated",
                 [threadId |-> threadId, diff |-> JoinedDiff(s3.accumulatedDiff)])
        ELSE s3

translatePiEventToCodex(s0, event) ==
    LET threadId == IF s0.currentThreadId # Null THEN s0.currentThreadId
                    ELSE DefaultThreadId
        turnId == IF s0.currentTurnId # Null THEN s0.currentTurnId ELSE NextUuid(s0)
        s == IF s0.currentTurnId # Null THEN s0 ELSE TakeUuid(s0)
        type == event.type
    IN  CASE type = "agent_start" ->
               sendCodexNotification(
                   [s EXCEPT !.isProcessing = TRUE, !.accumulatedDiff = <<>>],
                   "turn/started", TurnOf(turnId, threadId, "inProgress"))
          [] type = "agent_end" ->
               [sendCodexNotification([s EXCEPT !.isProcessing = FALSE],
                    "turn/completed", TurnOf(turnId, threadId, "completed"))
                EXCEPT !.currentTurnId = Null]
          [] type = "message_start" ->
               IF event.message.role = "assistant"
               THEN sendCodexNotification(
                        [TakeUuid(s) EXCEPT !.currentMessageId = NextUuid(s)],
                        "item/started",
                        [threadId |-> threadId,
                         item |-> [id |-> NextUuid(s), type |-> "agentMessage",
                                   status |-> "inProgress"]])
               ELSE s
          [] type = "message_update" -> TranslateMessageUpdate(s, event, threadId)
          [] type = "message_end" -> TranslateMessageEnd(s, event, threadId)
          [] type = "tool_execution_start" -> TranslateToolStart(s, event, threadId)
          [] type = "tool_execution_update" -> TranslateToolUpdate(s, event, threadId)
          [] type = "tool_execution_end" -> TranslateToolEnd(s, event, threadId)
          [] type = "auto_retry_start" ->
               sendCodexNotification(s, "error",
                   ErrorParams(threadId, turnId,
                       <<"Retrying: ">> \o Or2(Opt(event, "errorMessage", <<>>),
                                               <<"Transient error">>),
                       TRUE))
          [] type = "auto_retry_end" ->
               IF ~event.success /\ Opt(event, "finalError", <<>>) # <<>>
               THEN sendCodexNotification(s, "error",
                        ErrorParams(threadId, turnId, event.finalError, FALSE))
               ELSE s
          [] type = "hook_error" ->
               sendCodexNotification(s, "error",
                   ErrorParams(threadId, turnId,
                       <<"Hook error (">> \o Opt(event, "hookPath", <<>>) \o <<"): ">>
                           \o Or2(Opt(event, "error", <<>>), <<"Hook error">>),
                       FALSE))
          [] OTHER -> s

\* handlePiMessage for a line that is not a response
HandlePiEvent(s, event) == translatePiEventToCodex(s, event)

\* ------------------------------------------------- what the client observes
Interrupts == {"turn/interrupt", "thread/interrupt"}

\* The turn ids a written line carries as a notification
TurnIdsOf(l) ==
    IF ~IsNotification(l) THEN {}
    ELSE IF "turn" \in DOMAIN l.params THEN {l.params.turn.id}
    ELSE IF "turnId" \in DOMAIN l.params THEN {l.params.turnId}
    ELSE {}

\* A turn/start response announcing a turn as in progress
AnnouncesTurn(l) == IsResult(l) /\ "turn" \in DOMAIN l.result

AnnouncedIn(lines) ==
    {lines[i].result.turn.id : i \in {j \in 1..Len(lines) : AnnouncesTurn(lines[j])}}

NotifiedIn(lines) == UNION {TurnIdsOf(lines[i]) : i \in 1..Len(lines)}

ResponsesTo(lines, r) ==
    Cardinality({i \in 1..Len(lines) : IsResponse(lines[i]) /\ lines[i].id = r})

\* The turns in flight after one more written line: a turn/start response puts
\* its turn in flight (with the id of the prompt command written next, Null
\* when none is); turn/completed or a final error for that id, or the success
\* response of an interrupt, ends it.
PromptAfter(lines) ==
    IF Len(lines) > 1 /\ IsCommandOf(lines[2], "prompt") THEN lines[2].cmd.id
    ELSE Null

InflightAfter(fl, lines, hs, thread) ==
    LET l == Head(lines)
    IN  IF AnnouncesTurn(l)
        THEN fl \cup {[turn |-> l.result.turn.id, thread |-> thread,
                       prompt |-> PromptAfter(lines)]}
        ELSE IF IsNotification(l) /\ l.method = "turn/completed"
        THEN {x \in fl : x.turn # l.params.turn.id}
        ELSE IF IsNotification(l) /\ l.method = "error" /\ ~l.params.willRetry
        THEN {x \in fl : x.turn # l.params.turnId}
        ELSE IF IsResult(l) /\ hs[l.id].method \in Interrupts
        THEN {}
        ELSE fl

RECURSIVE InflightFold(_, _, _, _)
InflightFold(fl, lines, hs, thread) ==
    IF lines = <<>> THEN fl
    ELSE InflightFold(InflightAfter(fl, lines, hs, thread), Tail(lines),
                      hs, thread)

\* The items left started after one more written line
OpenAfter(open, l) ==
    IF IsNotification(l) /\ l.method = "item/started"
    THEN open \cup {l.params.item.id}
    ELSE IF IsNotification(l) /\ l.method = "item/completed"
    THEN open \ {l.params.item.id}
    ELSE IF IsNotification(l) /\ l.method = "error" /\ ~l.params.willRetry
    THEN {}
    ELSE open

RECURSIVE OpenFold(_, _)
OpenFold(open, lines) ==
    IF lines = <<>> THEN open ELSE OpenFold(OpenAfter(open, Head(lines)), Tail(lines))

\* The payload the next turn/diff/updated of the turn has to extend: the last
\* one written since the translator opened a turn (turn/started)
IsDiffUpdate(l) == IsNotification(l) /\ l.method = "turn/diff/updated"

DiffAfter(last, l) ==
    IF IsNotification(l) /\ l.method = "turn/started" THEN <<>>
    ELSE IF IsDiffUpdate(l) THEN l.params.diff
    ELSE last

RECURSIVE DiffFold(_, _)
DiffFold(last, lines) ==
    IF lines = <<>> THEN last ELSE DiffFold(DiffAfter(last, Head(lines)), Tail(lines))

\* An item/started of an assistant message or a reasoning block
StartsOwnItem(l) ==
    /\ IsNotification(l) /\ l.method = "item/started"
    /\ l.params.item.type \in {"agentMessage", "reasoning"}

StartedIn(lines) ==
    {lines[i].params.item.id : i \in {j \in 1..Len(lines) : StartsOwnItem(lines[j])}}

NoLine == [type |-> "none"]
ResponseRx(c, success) ==
    [type |-> "response", id |-> c.id, command |-> c.type, success |-> success]
ExitRx(p) == [type |-> "exit", proc |-> p]

\* The step ends with the session s: every variable takes its value from s and
\* the observations are extended by the lines the step wrote.
Commit(s) ==
    /\ piProcess' = s.piProcess
    /\ currentThreadId' = s.currentThreadId
    /\ currentTurnId' = s.currentTurnId
    /\ currentMessageId' = s.currentMessageId
    /\ isProcessing' = s.isProcessing
    /\ pendingRequests' = s.pendingRequests
    /\ currentModel' = s.currentModel
    /\ currentProvider' = s.currentProvider
    /\ cwd' = s.cwd
    /\ toolArgsCache' = s.toolArgsCache
    /\ accumulatedDiff' = s.accumulatedDiff
    /\ modelProviderMap' = s.modelProviderMap
    /\ uuid' = s.uuid
    /\ handlers' = s.handlers
    /\ procs' = s.procs
    /\ nextProc' = s.nextProc
    /\ inbox' = s.inbox
    /\ io' = s.io
    /\ responded' = [r \in ReqIds |-> responded[r] + ResponsesTo(s.io, r)]
    /\ announced' = announced \cup AnnouncedIn(s.io)
    /\ notified' = notified \cup NotifiedIn(s.io)
    /\ inflight' = InflightFold(inflight, s.io, s.handlers, s.currentThreadId)
    /\ openItems' = OpenFold(openItems, s.io)
    /\ lastDiff' = DiffFold(lastDiff, s.io)
    /\ itemsSeen' = itemsSeen \cup StartedIn(s.io)
    /\ UNCHANGED hookVars

\* ------------------------------------------------------------------- actions
Init ==
    /\ piProcess = Null
    /\ currentThreadId = Null
    /\ currentTurnId = Null
    /\ currentMessageId = Null
    /\ isProcessing = FALSE
    /\ pendingRequests = EmptyMap
    /\ currentModel = InitialModel
    /\ currentProvider = InitialProvider
    /\ cwd = ProcessCwd
    /\ toolArgsCache = EmptyMap
    /\ accumulatedDiff = <<>>
    /\ modelProviderMap = EmptyMap
    /\ uuid = 0
    /\ handlers = <<>>
    /\ procs = EmptyMap
    /\ nextProc = 0
    /\ inbox = EmptyMap
    /\ nEvents = 0
    /\ rx = NoLine
    /\ io = <<NotificationLine("codex/connected", EmptyArgs)>>
    /\ responded = [r \in ReqIds |-> 0]
    /\ announced = {}
    /\ notified = {}
    /\ inflight = {}
    /\ openItems = {}
    /\ lastDiff = <<>>
    /\ itemsSeen = {}
    /\ hook = Unmounted
    /\ fetches = {}
    /\ issued = 0

\* ensurePiProcess, its first test
PiRunning(s) == s.piProcess # Null

Spawning == {r \in DOMAIN handlers : handlers[r].pc = "access"}

\* A line of the client decodes to a request: handleCodexRequest starts and
\* runs to its first suspension.
ClientRequest(method, params, max) ==
    /\ Len(handlers) < max
    /\ piProcess = Null => nextProc + Cardinality(Spawning) < MaxProcs
    /\ LET r == Len(handlers) + 1
           s == [Session EXCEPT !.handlers =
                    Append(@, [method |-> method, params |-> params,
                               pc |-> "start", message |-> <<>>,
                               idle |-> inflight = {} /\ ~isProcessing])]
       IN  Commit(IF PiRunning(s) THEN Dispatch(s, r) ELSE Suspend(s, r, "access"))
    /\ rx' = NoLine
    /\ UNCHANGED nEvents

\* ensurePiProcess after the access test of the monorepo path: spawn, install
\* the exit and line handlers, and wait for the timer.
SpawnPi(s, r) ==
    LET p == s.nextProc + 1
    IN  [s EXCEPT !.nextProc = p,
                  !.piProcess = p,
                  !.procs = MapSet(@, p, s.cwd),
                  !.inbox = MapSet(@, p, {}),
                  !.handlers[r].pc = "initwait"]

FsAccessDone(r) ==
    /\ r \in DOMAIN handlers
    /\ handlers[r].pc = "access"
    /\ Commit(SpawnPi(Session, r))
    /\ rx' = NoLine
    /\ UNCHANGED nEvents

\* ensurePiProcess after the 100 ms timer: "Set the model"
EnsureSetModel(s, r) ==
    LET sent == sendPiCommand(s, SetModelCmd(<<"anthropic">>, s.currentModel),
                              Cont(r, "ensure"))
    IN  IF sent.ok THEN Suspend(sent.s, r, "await") ELSE CatchError(sent.s, r)

SpawnTimerDone(r) ==
    /\ r \in DOMAIN handlers
    /\ handlers[r].pc = "initwait"
    /\ Commit(EnsureSetModel(Session, r))
    /\ rx' = NoLine
    /\ UNCHANGED nEvents

\* The probe of account/rateLimits gets its credentials, then its HTTPS answer.
CredsOutcomes == {"none", "expired", "valid"}
HttpOutcomes == {"ok", "status500", "rejected", "badjson"}
Usages ==
    {[five_hour |-> <<>>, seven_day |-> <<>>, extra_enabled |-> FALSE],
     [five_hour |-> <<[utilization |-> 40, resets_at |-> "t1"]>>,
      seven_day |-> <<[utilization |-> 7, resets_at |-> "t2"]>>,
      extra_enabled |-> TRUE]}

ProbeRx(stage, outcome) == [type |-> "probe", stage |-> stage, outcome |-> outcome]

ProbeCredentials(r, creds) ==
    /\ r \in DOMAIN handlers
    /\ handlers[r].pc = "creds"
    /\ Commit(CredentialsLoaded(Session, r, creds))
    /\ rx' = ProbeRx("creds", creds)
    /\ UNCHANGED nEvents

ProbeFetch(r, http) ==
    /\ r \in DOMAIN handlers
    /\ handlers[r].pc = "fetch"
    /\ \E usage \in Usages : Commit(FetchDone(Session, r, http, usage))
    /\ rx' = ProbeRx("fetch", http)
    /\ UNCHANGED nEvents

\* The continuation k of an awaited command runs with the command's outcome.
Resume(s, k, success, data) ==
    CASE k.at = "ensure" ->
           IF success THEN Dispatch(s, k.req) ELSE CatchError(s, k.req)
      [] k.at = "turn_set_model" ->
           IF success THEN TurnStartRespond(s, k.req) ELSE CatchError(s, k.req)
      [] k.at = "abort" ->
           IF success THEN InterruptRespond(s, k.req) ELSE CatchError(s, k.req)
      [] k.at = "get_models" ->
           IF success THEN ModelListRespond(s, k.req, data)
           ELSE ModelListFallback(s, k.req)
      [] OTHER -> s

\* A slip: the answered command stays in the pending set.
HandlePiResponse_KeepsPending(s, id, success, data) ==
    IF id \in DOMAIN s.pendingRequests
    THEN Resume(s, s.pendingRequests[id], success, data)
    ELSE s

\* handlePiMessage for a response line
HandlePiResponse(s, id, success, data) ==
    IF id \in DOMAIN s.pendingRequests
    THEN Resume([s EXCEPT !.pendingRequests = MapDelete(@, id)],
                s.pendingRequests[id], success, data)
    ELSE s

\* ------------------------------------------------------------ input domains
Hi == <<"hi">>
ModelGpt == <<"openai", SLASH, "gpt", "-5">>
ModelLegacy == <<"gpt", "-5">>

TextBlock(text) == [type |-> "text", text |-> text]
ImageBlock == [type |-> "image", text |-> <<>>]

Params(threadId, input, model) ==
    [threadId |-> threadId, input |-> input, model |-> model, cwd |-> "",
     provider |-> ""]
NoParams == Params(Null, <<>>, <<>>)

TurnStartParams ==
    {Params(Null, <<TextBlock(Hi)>>, <<>>),
     Params(Null, <<ImageBlock>>, <<>>),
     Params(Null, <<TextBlock(Hi)>>, ModelGpt),
     Params(Null, <<TextBlock(Hi)>>, ModelLegacy)}

ParamsOf(method) ==
    CASE method = "turn/start" -> TurnStartParams
      [] method = "thread/start" -> {NoParams, [NoParams EXCEPT !.cwd = "/w"]}
      [] OTHER -> {NoParams}

Methods == {"turn/start", "turn/interrupt"}

AgentModel(provider, id, reasoning) ==
    [provider |-> provider, id |-> id, name |-> <<>>, reasoning |-> reasoning]

\* The model enumerations an agent may answer get_available_models with
ModelLists ==
    {<<>>,
     <<AgentModel(<<"openai">>, <<"gpt", "-5">>, TRUE),
       AgentModel(<<"anthropic">>, InitialModel, FALSE),
       AgentModel(<<"openrouter">>, <<"meta", SLASH, "llama">>, FALSE)>>}

DataFor(type, success) ==
    IF type = "get_available_models" /\ success THEN ModelLists ELSE {<<>>}

AssistantMessage == [role |-> "assistant", content |-> <<TextBlock(Hi)>>]
ToolA == 201         \* a tool call id chosen by the agent
BashArgs == [command |-> <<"ls">>]

\* The retries the agent reports: a retry announced, a retry that succeeded, one
\* that gave up with its last error, one that gave up without naming an error
RetryEvents ==
    {[type |-> "auto_retry_start", errorMessage |-> <<"overloaded">>],
     [type |-> "auto_retry_end", success |-> TRUE],
     [type |-> "auto_retry_end", success |-> FALSE, finalError |-> <<"overloaded">>],
     [type |-> "auto_retry_end", success |-> FALSE]}

ItemEvents ==
    RetryEvents \cup
    {[type |-> "agent_start"], [type |-> "agent_end"],
     [type |-> "message_start", message |-> AssistantMessage],
     [type |-> "message_end", message |-> AssistantMessage],
     [type |-> "message_update", assistantMessageEvent |-> [type |-> "thinking_start"]],
     [type |-> "message_update",
      assistantMessageEvent |-> [type |-> "thinking_end", content |-> <<"t">>]],
     [type |-> "tool_execution_start", toolName |-> "bash", toolCallId |-> ToolA,
      args |-> BashArgs],
     [type |-> "tool_execution_end", toolName |-> "bash", toolCallId |-> ToolA,
      isError |-> FALSE],
     [type |-> "hook_error", hookPath |-> <<"h">>, error |-> <<"e">>]}

TurnEvents ==
    {[type |-> "agent_start"], [type |-> "agent_end"]}

\* File changes: an edit whose result carries a diff, a write whose result
\* carries the new content only, an edit whose result carries a message only
FileArgs == [path |-> <<"f">>]
EditDiff == <<"@@ -1 +1 @@", NL, "-a", NL, "+b">>
WriteText == <<"x", NL, "y">>

DiffEvents ==
    {[type |-> "agent_start"], [type |-> "agent_end"],
     [type |-> "tool_execution_end", toolName |-> "edit", toolCallId |-> ToolA,
      args |-> FileArgs, isError |-> FALSE,
      result |-> [content |-> <<TextBlock(<<"ok">>)>>, details |-> [diff |-> EditDiff]]],
     [type |-> "tool_execution_end", toolName |-> "write", toolCallId |-> ToolA,
      args |-> FileArgs, isError |-> FALSE,
      result |-> [content |-> <<TextBlock(WriteText)>>]],
     [type |-> "tool_execution_end", toolName |-> "edit", toolCallId |-> ToolA,
      args |-> FileArgs, isError |-> FALSE,
      result |-> [content |-> <<TextBlock(<<"ok">>)>>]]}

\* Tool calls: every tool of the agent and one it does not know, started with
\* arguments that name a command, a path and a pattern or none of them, ended
\* with output; file changes that fail; a tool call reported by the message
\* stream before it executes
ToolNameSeq == <<"bash", "edit", "write", "read", "ls", "find", "grep", "fetch">>
ToolNames == {ToolNameSeq[i] : i \in 1..Len(ToolNameSeq)}
ToolIdOf(name) == 200 + (CHOOSE i \in 1..Len(ToolNameSeq) : ToolNameSeq[i] = name)
FullArgs == [command |-> <<"ls">>, path |-> <<"f">>, pattern |-> <<"p">>]
PlainArgs == [limit |-> <<"5">>]

ToolEvents ==
    {[type |-> "tool_execution_start", toolName |-> n, toolCallId |-> ToolIdOf(n),
      args |-> a] : n \in ToolNames, a \in {FullArgs, PlainArgs}}
    \cup
    {[type |-> "tool_execution_end", toolName |-> n, toolCallId |-> ToolIdOf(n),
      isError |-> FALSE, result |-> [content |-> <<TextBlock(<<"out">>)>>]] :
        n \in ToolNames}
    \cup
    {[type |-> "tool_execution_end", toolName |-> n, toolCallId |-> ToolIdOf(n),
      isError |-> TRUE, result |-> [content |-> <<TextBlock(<<"denied">>)>>]] :
        n \in {"edit", "write"}}
    \cup
    {[type |-> "message_update",
      assistantMessageEvent |->
          [type |-> "toolcall_end",
           toolCall |-> [id |-> ToolIdOf("edit"), name |-> "edit",
                         arguments |-> FullArgs]]]}

\* ------------------------------------------------- the agent and its lines
\* The agent p answers a command it has read; the bridge handles the response
\* line and the awaiting handler, if any, runs to its next suspension.
PiResponse(p, c, success) ==
    /\ p \in DOMAIN procs
    /\ c \in inbox[p]
    /\ \E data \in DataFor(c.type, success) :
          Commit(HandlePiResponse([Session EXCEPT !.inbox[p] = @ \ {c}],
                                  c.id, success, data))
    /\ rx' = ResponseRx(c, success)
    /\ UNCHANGED nEvents

\* The agent p emits an event; the bridge translates it.
PiEvent(p, event, max) ==
    /\ p \in DOMAIN procs
    /\ nEvents < max
    /\ Commit(HandlePiEvent(Session, event))
    /\ rx' = event
    /\ nEvents' = nEvents + 1

\* The agent p writes a response line that answers none of the commands it
\* has read: no id, the id of a command answered before, an id that never was
\* a command, or the id of a command sent to another subprocess.
StrayIds(p) ==
    ({Null} \cup {UuidBase + i : i \in 1..uuid}) \ {c.id : c \in inbox[p]}

PiStray(p, id, success, max) ==
    /\ p \in DOMAIN procs
    /\ nEvents < max
    /\ id \in StrayIds(p)
    /\ Commit(HandlePiResponse(Session, id, success, <<>>))
    /\ rx' = [type |-> "response", id |-> id, command |-> "stray",
              success |-> success]
    /\ nEvents' = nEvents + 1

\* main, the stdin line handler for a line that is no request: an empty line,
\* a line that does not decode, an object without a method (with or without
\* an id). Every one of them returns before handleCodexRequest.
LineKinds == {"empty", "undecodable", "nomethod"}
DropLine(s) == s

MalformedLine(kind, id) ==
    /\ id \in {Null, Len(handlers) + 1}
    /\ kind # "nomethod" => id = Null
    /\ Commit(DropLine(Session))
    /\ rx' = [type |-> "clientline", kind |-> kind, id |-> id]
    /\ UNCHANGED nEvents

\* The exit handler installed by ensurePiProcess
OnPiExit(s) == [s EXCEPT !.piProcess = Null]

\* The agent p exits and its exit handler runs.
PiExit(p) ==
    /\ p \in DOMAIN procs
    /\ Commit(OnPiExit([Session EXCEPT !.procs = MapDelete(@, p),
                                       !.inbox = MapDelete(@, p)]))
    /\ rx' = ExitRx(p)
    /\ UNCHANGED nEvents


Next ==
    \/ \E m \in Methods : \E ps \in ParamsOf(m) : ClientRequest(m, ps, MaxReq)
    \/ \E r \in ReqIds : FsAccessDone(r)
    \/ \E r \in ReqIds : SpawnTimerDone(r)
    \/ \E p \in DOMAIN procs : \E c \in inbox[p] : \E ok \in BOOLEAN :
          PiResponse(p, c, ok)
    \/ \E p \in DOMAIN procs : \E e \in TurnEvents : PiEvent(p, e, MaxEvents)
    \/ \E p \in DOMAIN procs : PiExit(p)

Spec == Init /\ [][Next]_vars

\* The item lifecycle: one kind of request, the item events of the agent.
ItemNext ==
    \/ ClientRequest("turn/start", Params(Null, <<TextBlock(Hi)>>, <<>>),
                     MaxItemReq)
    \/ \E r \in ReqIds : FsAccessDone(r)
    \/ \E r \in ReqIds : SpawnTimerDone(r)
    \/ \E p \in DOMAIN procs : \E c \in inbox[p] : \E ok \in BOOLEAN :
          PiResponse(p, c, ok)
    \/ \E p \in DOMAIN procs : \E e \in ItemEvents : PiEvent(p, e, MaxItemEvents)

ItemSpec == Init /\ [][ItemNext]_vars

\* The model registry: model/list and turn/start with a model, agents that
\* answer, reject and exit.
ModelMethods == {"model/list", "turn/start"}
ModelParamsOf(method) ==
    IF method = "turn/start"
    THEN {Params(Null, <<TextBlock(Hi)>>, ModelGpt),
          Params(Null, <<TextBlock(Hi)>>, ModelLegacy)}
    ELSE {NoParams}

ModelNext ==
    \/ \E m \in ModelMethods : \E ps \in ModelParamsOf(m) :
          ClientRequest(m, ps, MaxModelReq)
    \/ \E r \in ReqIds : FsAccessDone(r)
    \/ \E r \in ReqIds : SpawnTimerDone(r)
    \/ \E p \in DOMAIN procs : \E c \in inbox[p] : \E ok \in BOOLEAN :
          PiResponse(p, c, ok)
    \/ \E p \in DOMAIN procs : PiExit(p)

ModelSpec == Init /\ [][ModelNext]_vars

\* The thread methods and initialize, with an agent that answers or rejects.
ThreadMethods == {"initialize", "thread/start", "thread/list", "thread/archive"}

ThreadNext ==
    \/ \E m \in ThreadMethods : \E ps \in ParamsOf(m) :
          ClientRequest(m, ps, MaxThreadReq)
    \/ \E r \in ReqIds : FsAccessDone(r)
    \/ \E r \in ReqIds : SpawnTimerDone(r)
    \/ \E p \in DOMAIN procs : \E c \in inbox[p] : \E ok \in BOOLEAN :
          PiResponse(p, c, ok)

ThreadSpec == Init /\ [][ThreadNext]_vars

\* The edge cases: the rate-limit probe, interrupts, lines of the client that
\* are no request, stray responses of the agent.
EdgeMethods == {"account/rateLimits", "turn/interrupt"}

EdgeNext ==
    \/ \E m \in EdgeMethods : ClientRequest(m, NoParams, MaxEdgeReq)
    \/ \E kind \in LineKinds : \E id \in 0..(MaxEdgeReq + 1) :
          MalformedLine(kind, id)
    \/ \E r \in ReqIds : FsAccessDone(r)
    \/ \E r \in ReqIds : SpawnTimerDone(r)
    \/ \E r \in ReqIds : \E creds \in CredsOutcomes : ProbeCredentials(r, creds)
    \/ \E r \in ReqIds : \E http \in HttpOutcomes : ProbeFetch(r, http)
    \/ \E p \in DOMAIN procs : \E c \in inbox[p] : \E ok \in BOOLEAN :
          PiResponse(p, c, ok)
    \/ \E p \in DOMAIN procs : \E id \in StrayIds(p) : \E ok \in BOOLEAN :
          PiStray(p, id, ok, MaxEdgeEvents)
    \/ \E p \in DOMAIN procs : \E e \in TurnEvents : PiEvent(p, e, MaxEdgeEvents)

EdgeSpec == Init /\ [][EdgeNext]_vars

\* The tool calls: thread/start with and without a working directory, the tool
\* events of the agent.
ToolNext ==
    \/ \E ps \in ParamsOf("thread/start") :
          ClientRequest("thread/start", ps, MaxToolReq)
    \/ \E r \in ReqIds : FsAccessDone(r)
    \/ \E r \in ReqIds : SpawnTimerDone(r)
    \/ \E p \in DOMAIN procs : \E c \in inbox[p] : \E ok \in BOOLEAN :
          PiResponse(p, c, ok)
    \/ \E p \in DOMAIN procs : \E e \in ToolEvents : PiEvent(p, e, MaxToolEvents)

ToolSpec == Init /\ [][ToolNext]_vars

\* The diff of a turn: two turns, file changes of the agent.
DiffNext ==
    \/ ClientRequest("turn/start", Params(Null, <<TextBlock(Hi)>>, <<>>),
                     MaxDiffReq)
    \/ \E r \in ReqIds : FsAccessDone(r)
    \/ \E r \in ReqIds : SpawnTimerDone(r)
    \/ \E p \in DOMAIN procs : \E c \in inbox[p] : \E ok \in BOOLEAN :
          PiResponse(p, c, ok)
    \/ \E p \in DOMAIN procs : \E e \in DiffEvents : PiEvent(p, e, MaxDiffEvents)

DiffSpec == Init /\ [][DiffNext]_vars

\* ------------------------------------------------------------ useGitHubIssues
\* The workspaces of the client and what getGitHubIssues returns for a call
Workspaces == {1, 2}
IssuesOf(f) == <<[workspace |-> f.workspaceId, request |-> f.requestId]>>
FetchError == <<"gh: not logged in">>

\* refresh, up to its await: <<hook, calls issued>>
refresh(h) ==
    IF h.activeWorkspace = Null
    THEN [h |-> [h EXCEPT !.state = emptyState], calls |-> {}]
    ELSE LET requestId == h.requestIdRef + 1
         IN  [h |-> [h EXCEPT !.requestIdRef = requestId,
                              !.state.isLoading = TRUE,
                              !.state.error = <<>>],
              calls |-> {[requestId |-> requestId,
                          workspaceId |-> h.activeWorkspace]}]

\* The effect on a change of the active workspace's id
WorkspaceEffect(h) ==
    IF h.workspaceIdRef # h.activeWorkspace
    THEN [h EXCEPT !.workspaceIdRef = h.activeWorkspace,
                   !.requestIdRef = @ + 1,
                   !.state = emptyState]
    ELSE h

\* The effect on a change of enabled or of refresh
RefreshEffect(h) == IF h.enabled THEN refresh(h) ELSE [h |-> h, calls |-> {}]

\* A slip: a completion is accepted whenever its workspace is the active one.
IsCurrent_WorkspaceOnly(h, f) == h.workspaceIdRef = f.workspaceId

\* The test refresh makes after its await (negated in the code)
IsCurrent(h, f) ==
    h.requestIdRef = f.requestId /\ h.workspaceIdRef = f.workspaceId

\* refresh, after its await: the call f has resolved or rejected
Settle(h, f, ok) ==
    IF ~IsCurrent(h, f) THEN h
    ELSE IF ok
    THEN [h EXCEPT !.state = [issues |-> IssuesOf(f), isLoading |-> FALSE,
                              error |-> <<>>]]
    ELSE [h EXCEPT !.state = [issues |-> <<>>, isLoading |-> FALSE,
                              error |-> FetchError]]

bridgeVars == <<piProcess, currentThreadId, currentTurnId, currentMessageId,
                isProcessing, pendingRequests, currentModel, currentProvider,
                cwd, toolArgsCache, accumulatedDiff, modelProviderMap, uuid,
                handlers, procs, nextProc, inbox, nEvents, io, responded,
                announced, notified, inflight, openItems, lastDiff, itemsSeen>>

\* A render has committed the hook h and its effects have issued the calls.
Rendered(r, event) ==
    /\ hook' = r.h
    /\ fetches' = fetches \cup r.calls
    /\ issued' = IF r.calls = {} THEN issued ELSE r.h.requestIdRef
    /\ rx' = [type |-> event]
    /\ UNCHANGED bridgeVars

\* The first render, with its props; both effects run.
Mount(w, enabled) ==
    /\ ~hook.mounted
    /\ LET h == [Unmounted EXCEPT !.mounted = TRUE, !.activeWorkspace = w,
                                  !.enabled = enabled, !.workspaceIdRef = w]
       IN  Rendered(RefreshEffect(WorkspaceEffect(h)), "mount")

\* The active workspace changes; refresh is a new callback, both effects run.
SetWorkspace(w) ==
    /\ hook.mounted /\ w # hook.activeWorkspace
    /\ hook.requestIdRef + 2 <= MaxHookRequests
    /\ Rendered(RefreshEffect(WorkspaceEffect([hook EXCEPT !.activeWorkspace = w])),
                "workspace")

\* enabled changes; the second effect runs.
SetEnabled(enabled) ==
    /\ hook.mounted /\ enabled # hook.enabled
    /\ hook.requestIdRef + 1 <= MaxHookRequests
    /\ Rendered(RefreshEffect([hook EXCEPT !.enabled = enabled]), "enabled")

\* The component calls the refresh the hook returned.
CallRefresh ==
    /\ hook.mounted
    /\ hook.requestIdRef + 1 <= MaxHookRequests
    /\ Rendered(refresh(hook), "refresh")

\* A call of getGitHubIssues settles and refresh goes on after its await.
IssuesFetched(f, ok) ==
    /\ f \in fetches
    /\ hook' = Settle(hook, f, ok)
    /\ fetches' = fetches \ {f}
    /\ issued' = issued
    /\ rx' = [type |-> "fetched", requestId |-> f.requestId,
              workspaceId |-> f.workspaceId, success |-> ok]
    /\ UNCHANGED bridgeVars

HookNext ==
    \/ \E w \in Workspaces \cup {Null} : \E en \in BOOLEAN : Mount(w, en)
    \/ \E w \in Workspaces \cup {Null} : SetWorkspace(w)
    \/ \E en \in BOOLEAN : SetEnabled(en)
    \/ CallRefresh
    \/ \E f \in fetches : \E ok \in BOOLEAN : IssuesFetched(f, ok)

HookSpec == Init /\ [][HookNext]_vars

\* The event loop runs every completed file test and timer, and the agent
\* answers the commands it has read for as long as it runs; nothing obliges
\* the client to send, the agent to emit events, or the agent to stay alive.
AgentAnswers ==
    \E p \in DOMAIN procs : \E c \in inbox[p] : \E ok \in BOOLEAN :
        PiResponse(p, c, ok)

FairSpec ==
    /\ Init /\ [][Next]_vars
    /\ \A r \in ReqIds : WF_vars(FsAccessDone(r)) /\ WF_vars(SpawnTimerDone(r))
    /\ WF_vars(AgentAnswers)

\* ------------------------------------------------------------------- claims
InflightTurns == {x.turn : x \in inflight}
EmptyTurnStart(r) ==
    /\ r \in DOMAIN handlers
    /\ handlers[r].method = "turn/start"
    /\ MessageOf(handlers[r].params.input) = <<>>

\* C1: every request with id R is eventually answered by exactly one response
\* carrying R, whatever the agent does, and no notification carries an id.
C1_EveryRequestAnsweredOnce ==
    /\ [](\A r \in ReqIds : responded[r] <= 1)
    /\ [](\A i \in 1..Len(io) : IsNotification(io[i]) => "id" \notin DOMAIN io[i])
    /\ \A r \in ReqIds : (r \in DOMAIN handlers) ~> (responded[r] = 1)

\* C2: every item/started is followed by exactly one item/completed for the
\* item or by a turn-terminating error; in particular, once the agent has
\* signalled the end of its run (turn/completed is written) no item is left
\* started.
C2_StartedItemsComplete ==
    \A i \in 1..Len(io) :
        /\ IsNotification(io[i])
        /\ io[i].method = "turn/completed"
        /\ io[i].params.turn.id \in announced
        => openItems = {}

\* C3: no notification carries the turn id T of a new turn before the
\* turn/start response that announces T.
C3_ResponseBeforeNotifications ==
    [][\A T \in announced' \ announced : T # Null => T \notin notified]_vars

\* C4: once the exit of the agent is handled the handle is cleared, the pending
\* set is empty and no handler stays suspended on a command.
C4_ExitRejectsPending ==
    DOMAIN procs = {} =>
        /\ piProcess = Null
        /\ DOMAIN pendingRequests = {}
        /\ \A r \in DOMAIN handlers : handlers[r].pc # "await"

\* C5: a turn announced as in progress reaches a terminal state visible to the
\* client: when the agent rejected its prompt, never got it, or has exited, the
\* turn stops being in flight.
UuidLimit == 5 * MaxReq + MaxEvents
TurnIdSpace == {Null} \cup {UuidBase + i : i \in 1..UuidLimit}

Doomed(x) ==
    \/ DOMAIN procs = {}
    \/ x.prompt = Null
    \/ rx.type = "response" /\ rx.id = x.prompt /\ ~rx.success

C5_AnnouncedTurnsTerminate ==
    \A T \in TurnIdSpace :
        []((\E x \in inflight : x.turn = T /\ Doomed(x)) => <>(T \notin InflightTurns))

\* C6: at most one turn per thread is in flight.
C6_AtMostOneTurnInFlight ==
    \A x, y \in inflight : x.thread = y.thread => x.turn = y.turn

\* C7: turn/start with empty text is answered with an error and causes no
\* agent traffic: its handler neither spawns the agent (and waits for its
\* timer) nor writes a command (and awaits its response).
C7_EmptyInputNoAgentTraffic ==
    /\ \A r \in DOMAIN handlers :
          EmptyTurnStart(r) => handlers[r].pc \notin {"initwait", "await"}
    /\ \A i \in 1..Len(io) :
          IsResponse(io[i]) /\ EmptyTurnStart(io[i].id) => IsError(io[i])

\* C8: an interrupt received while no turn is in flight is answered with a
\* success response and no notification.
IdleInterrupt(r) ==
    /\ r \in DOMAIN handlers
    /\ handlers[r].method \in Interrupts
    /\ handlers[r].idle

C8_IdleInterruptIsNoOp ==
    \A i \in 1..Len(io) :
        IsResponse(io[i]) /\ IdleInterrupt(io[i].id) =>
            /\ IsResult(io[i])
            /\ \A j \in 1..Len(io) : ~IsNotification(io[j])

\* C9: turn/interrupt does not wait for the agent: whenever the abort command
\* is pending, the response of its request has been written.
C9_InterruptNonBlocking ==
    \A id \in DOMAIN pendingRequests :
        pendingRequests[id].at = "abort" => responded[pendingRequests[id].req] = 1

\* C10: a turn/start that switches the model writes set_model with the parsed
\* (provider, inner model id) and nothing else; until the agent answers it
\* writes neither response nor prompt; on the acknowledgement it writes the
\* response and only then the prompt; on a rejection it writes an error
\* response, no prompt, and ends.
ParsedAs(cmd, model) ==
    IF Includes(model, SLASH)
    THEN cmd.provider \o <<SLASH>> \o cmd.modelId = model
         /\ ~Includes(cmd.provider, SLASH)
    ELSE cmd.modelId = model /\ cmd.provider # <<>>

SetModelWritten(id) ==
    LET r == pendingRequests'[id].req
    IN  /\ Len(io') = 1
        /\ IsCommandOf(io'[1], "set_model")
        /\ io'[1].cmd.id = id
        /\ ParsedAs(io'[1].cmd, handlers'[r].params.model)

SetModelAnswered(id) ==
    LET r == pendingRequests[id].req
    IN  /\ rx'.type = "response" /\ rx'.id = id
        /\ handlers'[r].pc = "done"
        /\ IF rx'.success
           THEN /\ Len(io') \in {1, 2}
                /\ AnnouncesTurn(io'[1]) /\ io'[1].id = r
                /\ Len(io') = 2 =>
                      /\ IsCommandOf(io'[2], "prompt")
                      /\ io'[2].cmd.message = handlers[r].message
                /\ Len(io') = 1 => piProcess = Null
           ELSE /\ Len(io') = 1
                /\ IsError(io'[1]) /\ io'[1].id = r

AwaitsSetModel(id) ==
    id \in DOMAIN pendingRequests /\ pendingRequests[id].at = "turn_set_model"

C10_ModelSwitchOrder ==
    /\ [](\A id \in DOMAIN pendingRequests :
             AwaitsSetModel(id) =>
                 /\ responded[pendingRequests[id].req] = 0
                 /\ handlers[pendingRequests[id].req].pc = "await")
    /\ [][\A id \in DOMAIN pendingRequests' \ DOMAIN pendingRequests :
             pendingRequests'[id].at = "turn_set_model" => SetModelWritten(id)]_vars
    /\ [][\A id \in DOMAIN pendingRequests \ DOMAIN pendingRequests' :
             AwaitsSetModel(id) => SetModelAnswered(id)]_vars

\* C10's case: the acknowledgement of a set_model for a composite model id has
\* just been handled, and the response and the prompt were written.
C10_Witness ==
    /\ rx.type = "response" /\ rx.command = "set_model" /\ rx.success
    /\ Len(io) = 2
    /\ AnnouncesTurn(io[1])
    /\ handlers[io[1].id].params.model = ModelGpt
    /\ currentModel = ModelGpt
    /\ IsCommandOf(io[2], "prompt")

\* ------------------------------------------------------------ the turn diff
IsPrefix(a, b) == Len(a) <= Len(b) /\ SubSeq(b, 1, Len(a)) = a

\* C11: between two turn/started notifications every turn/diff/updated payload
\* extends the previous one: it starts with it and, when there is a previous
\* one, goes on with the blank-line separator and a further fragment.
C11_DiffPayloadsMonotonic ==
    [][\A i \in 1..Len(io') :
          IsDiffUpdate(io'[i]) =>
              LET payload == io'[i].params.diff
              IN  /\ IsPrefix(lastDiff, payload)
                  /\ Len(payload) > Len(lastDiff)
                  /\ lastDiff # <<>> =>
                        SubSeq(payload, Len(lastDiff) + 1, Len(lastDiff) + 2)
                            = <<NL, NL>>]_vars

\* C11's case: a payload of two fragments has just been written.
C11_Witness ==
    /\ Len(accumulatedDiff) = 2
    /\ \E i \in 1..Len(io) : IsDiffUpdate(io[i]) /\ io[i].params.diff = lastDiff
    /\ Len(lastDiff) > Len(accumulatedDiff[1]) + 2

\* C12: when a turn/start response announces a turn, the diff accumulator
\* holds no fragment.
C12_AccumulatorEmptyAtTurnStart ==
    \A i \in 1..Len(io) : AnnouncesTurn(io[i]) => accumulatedDiff = <<>>


\* ------------------------------------------------------- the model registry
\* A model/list response built from the agent's enumeration
IsAgentModelList(l) ==
    /\ IsResult(l) /\ handlers[l.id].method = "model/list"
    /\ l.result.data # FallbackModels

IsFallbackModelList(l) ==
    /\ IsResult(l) /\ handlers[l.id].method = "model/list"
    /\ l.result.data = FallbackModels

\* The inner model id of the current model: what follows the provider of a
\* composite id, the id itself otherwise
InnerId(model) ==
    IF Includes(model, SLASH) THEN Join(Tail(Split(model, SLASH)), SLASH)
    ELSE model

DenotesCurrentModel(e) ==
    e.provider = currentProvider /\ e.model = InnerId(currentModel)

\* C13: in a model/list response built from the agent's enumeration an entry
\* has isDefault = true exactly when it denotes the session's current model.
C13_IsDefaultMarksCurrentModel ==
    \A i \in 1..Len(io) :
        IsAgentModelList(io[i]) =>
            \A k \in 1..Len(io[i].result.data) :
                io[i].result.data[k].isDefault
                    <=> DenotesCurrentModel(io[i].result.data[k])

\* C14: every id a model/list response advertises from the agent's
\* enumeration parses, as turn/start parses it, to the provider and the inner
\* model id of its entry, and the registry maps the id to that provider.
C14_CompositeIdRoundTrip ==
    \A i \in 1..Len(io) :
        IsAgentModelList(io[i]) =>
            \A k \in 1..Len(io[i].result.data) :
                LET e == io[i].result.data[k]
                IN  /\ ParseModel(modelProviderMap, e.id)
                          = [provider |-> e.provider, modelId |-> e.model]
                    /\ e.id \in DOMAIN modelProviderMap
                    /\ modelProviderMap[e.id] = e.provider

\* C14's case: a response advertises an id whose inner model id holds the
\* separator.
C14_Witness ==
    \E i \in 1..Len(io) :
        /\ IsAgentModelList(io[i])
        /\ \E k \in 1..Len(io[i].result.data) :
              Includes(io[i].result.data[k].model, SLASH)


\* The handler of request r awaits the get_available_models command id.
AwaitsModels(id, r) ==
    /\ id \in DOMAIN pendingRequests
    /\ pendingRequests[id] = Cont(r, "get_models")

FallbackResponse(r) == <<ResponseLine(r, [data |-> FallbackModels], Null)>>

\* The step handles the agent's rejection of get_available_models for r.
ModelsRejected(r) ==
    \E id \in DOMAIN pendingRequests :
        /\ AwaitsModels(id, r)
        /\ rx'.type = "response" /\ rx'.id = id /\ ~rx'.success

\* The step takes the model/list handler r from ensurePiProcess into the
\* switch when the agent handle has been cleared meanwhile.
ModelsNotRunning(r) ==
    /\ r \in DOMAIN handlers
    /\ handlers[r].method = "model/list" /\ handlers[r].pc = "await"
    /\ \A id \in DOMAIN pendingRequests : ~AwaitsModels(id, r)
    /\ rx'.type = "response" /\ rx'.success
    /\ handlers'[r].pc = "done"

\* C15: when get_available_models fails (the agent rejects it, or there is no
\* agent to send it to), model/list is answered with the fallback list as a
\* result and the registry keeps its value; model/list gets an error response
\* only when ensurePiProcess itself failed.
C15_ModelListFallback ==
    /\ [][\A r \in ReqIds :
             ModelsRejected(r) \/ ModelsNotRunning(r) =>
                 /\ io' = FallbackResponse(r)
                 /\ modelProviderMap' = modelProviderMap]_vars
    /\ [][\A i \in 1..Len(io') :
             IsError(io'[i]) /\ handlers'[io'[i].id].method = "model/list" =>
                 \/ /\ io'[i].id \in DOMAIN handlers
                    /\ handlers[io'[i].id].pc = "initwait"
                 \/ rx'.type = "response" /\ rx'.command = "set_model"
                    /\ ~rx'.success]_vars

\* C15's case: the agent has just rejected get_available_models and the
\* fallback list was written.
C15_Witness ==
    /\ rx.type = "response" /\ rx.command = "get_available_models" /\ ~rx.success
    /\ Len(io) = 1 /\ IsFallbackModelList(io[1])


\* ------------------------------------------------------- the thread methods
\* The lines of the step just taken that answer a request of this method
AnswersOf(method) ==
    {i \in 1..Len(io') : IsResponse(io'[i]) /\ handlers'[io'[i].id].method = method}

\* The step ends the handler of r in ensurePiProcess: there was no agent to
\* send set_model to, or the agent rejected it.
EnsureFailed(r) ==
    \/ r \in DOMAIN handlers /\ handlers[r].pc = "initwait"
    \/ /\ rx'.type = "response" /\ ~rx'.success
       /\ rx'.id \in DOMAIN pendingRequests
       /\ pendingRequests[rx'.id] = Cont(r, "ensure")

C17_InitializeNoSideEffects ==
    \A r \in DOMAIN handlers :
        handlers[r].method = "initialize" => handlers[r].pc \notin {"initwait", "await"}

\* C18: a thread/start without a cwd leaves the working directory as it was.
C18_ThreadStartKeepsCwd ==
    [][\A i \in AnswersOf("thread/start") :
          IsResult(io'[i]) /\ handlers'[io'[i].id].params.cwd = "" => cwd' = cwd]_vars


\* ------------------------------------------------------------ message items
LinesOf(lines, method) ==
    {i \in 1..Len(lines) : IsNotification(lines[i]) /\ lines[i].method = method}

\* C19: the step that translates an assistant message_end while no message is
\* live writes exactly one item/completed, under an id generated in that very
\* step and never used for a started item, writes no item/started, and leaves
\* the live message id cleared.
C19_MessageEndWithoutStart ==
    [][rx'.type = "message_end" /\ rx'.message.role = "assistant"
       /\ currentMessageId = Null =>
          /\ Cardinality(LinesOf(io', "item/completed")) = 1
          /\ LinesOf(io', "item/started") = {}
          /\ \A i \in LinesOf(io', "item/completed") :
                /\ io'[i].params.item.id > UuidBase + uuid
                /\ io'[i].params.item.id <= UuidBase + uuid'
                /\ io'[i].params.item.id \notin itemsSeen
                /\ io'[i].params.item.id # currentTurnId'
          /\ currentMessageId' = Null]_vars

\* C19's case: a message_end has just been translated into the completion of
\* an item that was never started.
C19_Witness ==
    /\ rx.type = "message_end"
    /\ Len(io) = 1
    /\ IsNotification(io[1]) /\ io[1].method = "item/completed"
    /\ io[1].params.item.id \notin itemsSeen
    /\ currentMessageId = Null

\* C20: an assistant message or a reasoning block is never started under the
\* id of an earlier item that was started and is no longer open.
C20_ItemIdsNeverAlias ==
    [][\A i \in 1..Len(io') :
          StartsOwnItem(io'[i]) =>
              ~(/\ io'[i].params.item.id \in itemsSeen
                /\ io'[i].params.item.id \notin openItems)]_vars


\* ------------------------------------------------------- the order of events
EventTypes ==
    {"agent_start", "agent_end", "message_start", "message_update", "message_end",
     "tool_execution_start", "tool_execution_update", "tool_execution_end",
     "auto_retry_start", "auto_retry_end", "hook_error"}

\* The step just taken handled an event line of the agent.
EventStep == rx'.type \in EventTypes

\* C21: notifications are written only by the step that receives the agent
\* event driving them, and that step is the whole translation: it writes
\* nothing but that event's notifications, all of them, and moves no request
\* handler; so the notifications of an earlier event precede those of a later
\* one whatever handlers are suspended.
C21_NotificationsInEventOrder ==
    /\ [][(\E i \in 1..Len(io') : IsNotification(io'[i])) => EventStep]_vars
    /\ [][EventStep =>
             /\ \A i \in 1..Len(io') : IsNotification(io'[i])
             /\ io' = translatePiEventToCodex(Session, rx').io
             /\ handlers' = handlers
             /\ pendingRequests' = pendingRequests]_vars

\* C21's case: an event has just been translated into a notification while a
\* request handler is suspended.
C21_Witness ==
    /\ rx.type \in EventTypes
    /\ Len(io) >= 1 /\ IsNotification(io[1])
    /\ \E r \in DOMAIN handlers : handlers[r].pc = "await"


\* ------------------------------------------------------- the rate-limit probe
NullRateLimits == [primary |-> Null, secondary |-> Null, credits |-> Null]

\* The step just taken saw the probe fail.
ProbeFailed ==
    /\ rx'.type = "probe"
    /\ \/ rx'.stage = "creds" /\ rx'.outcome \in {"none", "expired"}
       \/ rx'.stage = "fetch" /\ rx'.outcome # "ok"

\* C22: a failure of the probe (no credentials, expired token, non-2xx status,
\* rejected or undecodable answer) is answered with the null-valued shape as a
\* result; an account/rateLimits request gets an error response only when
\* ensurePiProcess failed.
C22_RateLimitsNullOnFailure ==
    /\ [][ProbeFailed =>
             /\ Len(io') = 1
             /\ IsResult(io'[1])
             /\ handlers'[io'[1].id].method = "account/rateLimits"
             /\ handlers[io'[1].id].pc \in {"creds", "fetch"}
             /\ io'[1].result = NullRateLimits]_vars
    /\ [][\A i \in AnswersOf("account/rateLimits") :
             IsError(io'[i]) => EnsureFailed(io'[i].id)]_vars

\* C22's case: the HTTPS query has just returned a non-2xx status and the
\* null-valued shape was written.
C22_Witness ==
    /\ rx.type = "probe" /\ rx.stage = "fetch" /\ rx.outcome = "status500"
    /\ Len(io) = 1 /\ IsResult(io[1]) /\ io[1].result = NullRateLimits

\* ------------------------------------------------------ lines of the client
\* C24: a line that decodes to an object with an id and no method is answered
\* with an error response carrying that id.
C24_MalformedLineAnswered ==
    rx.type = "clientline" /\ rx.kind = "nomethod" /\ rx.id # Null =>
        \E i \in 1..Len(io) : IsError(io[i]) /\ io[i].id = rx.id

\* ------------------------------------------------------------ the correlator
progVars == <<piProcess, currentThreadId, currentTurnId, currentMessageId,
              isProcessing, pendingRequests, currentModel, currentProvider, cwd,
              toolArgsCache, accumulatedDiff, modelProviderMap, uuid, handlers>>

ResponseStep == rx'.type = "response"
Matched == ResponseStep /\ rx'.id \in DOMAIN pendingRequests

\* C27: a response with a pending id removes exactly that entry and runs its
\* continuation by the outcome (for an awaited abort: the success response to
\* the request, or an error response); a response with any other id changes
\* no state and writes nothing; commands get ids never used before; events
\* leave the pending set alone and responses write no notification.
C27_PendingCompletedOnce ==
    /\ [][Matched =>
             /\ rx'.id \notin DOMAIN pendingRequests'
             /\ \A id \in DOMAIN pendingRequests \ {rx'.id} :
                   /\ id \in DOMAIN pendingRequests'
                   /\ pendingRequests'[id] = pendingRequests[id]
             /\ pendingRequests[rx'.id].at = "abort" =>
                   /\ Len(io') = 1 /\ io'[1].id = pendingRequests[rx'.id].req
                   /\ IF rx'.success THEN IsResult(io'[1]) ELSE IsError(io'[1])]_vars
    /\ [][ResponseStep /\ ~Matched => io' = <<>> /\ progVars' = progVars]_vars
    /\ [][\A id \in DOMAIN pendingRequests' \ DOMAIN pendingRequests :
             id > UuidBase + uuid]_vars
    /\ [][EventStep => pendingRequests' = pendingRequests]_vars
    /\ [][ResponseStep => \A i \in 1..Len(io') : ~IsNotification(io'[i])]_vars

\* C27's case: the agent has just answered a second time under the id of an
\* abort command that was answered before, and nothing happened.
C27_Witness ==
    /\ rx.type = "response" /\ rx.command = "stray" /\ rx.id > UuidBase
    /\ rx.id \notin DOMAIN pendingRequests
    /\ io = <<>>
    /\ \E r \in DOMAIN handlers :
          handlers[r].method = "turn/interrupt" /\ responded[r] = 1

\* ------------------------------------------------------------------ retries
ErrorLines(lines, willRetry) ==
    {i \in LinesOf(lines, "error") : lines[i].params.willRetry = willRetry}

\* C23: auto_retry_start writes exactly one error notification with willRetry
\* true; auto_retry_end writes exactly one error notification with willRetry
\* false when it reports failure and nothing when it reports success.
C23_RetryNotifications ==
    /\ [][rx'.type = "auto_retry_start" =>
             Len(io') = 1 /\ ErrorLines(io', TRUE) = {1}]_vars
    /\ [][rx'.type = "auto_retry_end" /\ rx'.success => io' = <<>>]_vars
    /\ [][rx'.type = "auto_retry_end" /\ ~rx'.success =>
             Len(io') = 1 /\ ErrorLines(io', FALSE) = {1}]_vars

\* ------------------------------------------------------------ the tool cache
\* C26: when turn/completed is written the tool-argument cache is empty.
C26_CacheEmptyAtTurnEnd ==
    LinesOf(io, "turn/completed") # {} => DOMAIN toolArgsCache = {}

\* ------------------------------------------------------- the turn identifier
\* C29: agent_start writes exactly one turn/started and nothing else, naming
\* the current turn (a turn id generated in that step when there is none) and
\* leaving the identifier as it was; agent_end writes exactly one
\* turn/completed and nothing else, naming the same way, and leaves the
\* identifier cleared; no other event changes the identifier.
C29_TurnIdentifierFrame ==
    /\ [][rx'.type = "agent_start" =>
             /\ Len(io') = 1 /\ LinesOf(io', "turn/started") = {1}
             /\ io'[1].params.turn.status = "inProgress"
             /\ IF currentTurnId # Null
                THEN io'[1].params.turn.id = currentTurnId
                ELSE io'[1].params.turn.id = UuidBase + uuid'
                     /\ uuid' = uuid + 1
             /\ currentTurnId' = currentTurnId]_vars
    /\ [][rx'.type = "agent_end" =>
             /\ Len(io') = 1 /\ LinesOf(io', "turn/completed") = {1}
             /\ io'[1].params.turn.status = "completed"
             /\ IF currentTurnId # Null
                THEN io'[1].params.turn.id = currentTurnId
                ELSE io'[1].params.turn.id = UuidBase + uuid'
                     /\ uuid' = uuid + 1
             /\ currentTurnId' = Null]_vars
    /\ [][EventStep /\ rx'.type # "agent_end" =>
             currentTurnId' = currentTurnId]_vars

\* C29's case: the agent has just ended the turn a turn/start response
\* announced to the client.
C29_Witness ==
    /\ rx.type = "agent_end"
    /\ currentTurnId = Null
    /\ Len(io) = 1 /\ io[1].method = "turn/completed"
    /\ io[1].params.turn.id \in announced

\* ------------------------------------------------------- the diff fragments
FileChangeEnd == rx'.type = "tool_execution_end" /\ IsFileChangeTool(rx'.toolName)
DiffBodyOf(event) == Opt(Opt(event.result, "details", EmptyArgs), "diff", <<>>)
OutputTextOf(event) == FirstText(Opt(event.result, "content", <<>>))

\* The full-addition fragment of a file whose content has the given lines
FullAddition(path, lines) ==
    <<"--- /dev/null", NL, "+++ b/">> \o path
    \o <<NL, "@@ -0,0 +1,", ToString(Len(lines)), " @@">>
    \o JoinWith([i \in 1..Len(lines) |-> <<NL, "+">> \o lines[i]], <<>>)

\* C30: at the end of a file-change tool call a diff body is appended under
\* the a/b header; without a diff body the full-addition fragment of the
\* output text is appended when the tool kind is create; an edit without a
\* diff body appends nothing.
C30_DiffFragmentByKind ==
    /\ [][FileChangeEnd /\ DiffBodyOf(rx') # <<>> =>
             accumulatedDiff' =
                 Append(accumulatedDiff,
                        <<"--- a/">> \o rx'.args.path \o <<NL, "+++ b/">>
                        \o rx'.args.path \o <<NL>> \o DiffBodyOf(rx'))]_vars
    /\ [][(/\ FileChangeEnd /\ DiffBodyOf(rx') = <<>>
           /\ OutputTextOf(rx') # <<>> /\ ChangeKind(rx'.toolName) = "create") =>
             accumulatedDiff' =
                 Append(accumulatedDiff,
                        FullAddition(rx'.args.path,
                                     Split(OutputTextOf(rx'), NL)))]_vars
    /\ [][(/\ FileChangeEnd /\ DiffBodyOf(rx') = <<>>
           /\ ChangeKind(rx'.toolName) = "edit") =>
             accumulatedDiff' = accumulatedDiff]_vars

\* ------------------------------------------------------- the guessed provider
\* The handler of request r has just sent the set_model command of turn/start.
SendsTurnSetModel(r) ==
    \E id \in DOMAIN pendingRequests' \ DOMAIN pendingRequests :
        pendingRequests'[id] = Cont(r, "turn_set_model")

\* C28: when turn/start selects a model by an id that is not composite, the
\* provider it settles on is in the registry under that id from then on.
C28_GuessedProviderRecorded ==
    [][\A r \in DOMAIN handlers' :
          SendsTurnSetModel(r) /\ ~Includes(handlers'[r].params.model, SLASH) =>
              /\ handlers'[r].params.model \in DOMAIN modelProviderMap'
              /\ modelProviderMap'[handlers'[r].params.model] = currentProvider']_vars

\* ------------------------------------------------------ the agent that is down
\* The handler of request r is inside ensurePiProcess, past the spawn: waiting
\* for the timer or for the acknowledgement of its set_model.
StartingAgent(r) ==
    /\ r \in DOMAIN handlers
    /\ \/ handlers[r].pc = "initwait"
       \/ \E id \in DOMAIN pendingRequests : pendingRequests[id] = Cont(r, "ensure")

\* C25: a request whose agent went down while it was being started is
\* answered (with the agent-down error, or normally after a later respawn),
\* never left unanswered.
C25_AgentDownAnswered ==
    \A r \in 1..MaxReq :
        []((StartingAgent(r) /\ DOMAIN procs = {}) => <>(responded[r] = 1))

\* ---------------------------------------------------------- one agent at most
\* C32: the bridge owns at most one agent subprocess: no second one is spawned
\* while one runs, and every running one is the one the handle refers to.
C32_AtMostOneAgent ==
    /\ Cardinality(DOMAIN procs) <= 1
    /\ \A p \in DOMAIN procs : piProcess = p

\* ------------------------------------------------- the id of a completed turn
\* C33: the turn/completed that ends a run of the agent (one that agent_start
\* has opened) carries a turn id that a notification written before it, the
\* turn/started of the run, has carried.
C33_CompletedTurnWasStarted ==
    [][isProcessing =>
          \A i \in LinesOf(io', "turn/completed") :
              io'[i].params.turn.id \in notified]_vars

\* ----------------------------------------------------- the model of a respawn
\* The handler of request r has just sent the set_model command of
\* ensurePiProcess as line i.
SendsEnsureSetModel(i) ==
    /\ IsCommandOf(io'[i], "set_model")
    /\ io'[i].cmd.id \in DOMAIN pendingRequests'
    /\ pendingRequests'[io'[i].cmd.id].at = "ensure"

\* C34: the set_model command sent to a newly spawned agent names the current
\* provider and the inner model id of the current model.
C34_RespawnSetsCurrentModel ==
    [][\A i \in 1..Len(io') :
          SendsEnsureSetModel(i) =>
              /\ io'[i].cmd.provider = currentProvider
              /\ io'[i].cmd.modelId = InnerId(currentModel)]_vars

\* ------------------------------------------------------- a rejected set_model
\* The step just taken handled the agent's rejection of the set_model command
\* that the turn/start handler of request r awaits.
TurnSetModelRejected(r) ==
    /\ rx'.type = "response" /\ ~rx'.success
    /\ rx'.id \in DOMAIN pendingRequests
    /\ pendingRequests[rx'.id] = Cont(r, "turn_set_model")

\* C35: when the agent rejects the set_model of a turn/start, the model that
\* request named is not the current model afterwards.
C35_RejectedModelNotCurrent ==
    [][\A r \in DOMAIN handlers :
          TurnSetModelRejected(r) => currentModel' # handlers[r].params.model]_vars

\* ------------------------------------------------- a turn/start that fails
\* C36: the step that answers a turn/start with an error leaves the current
\* turn identifier and the current thread identifier as they were.
C36_FailedTurnStartKeepsIds ==
    [][\A i \in AnswersOf("turn/start") :
          IsError(io'[i]) =>
              /\ currentTurnId' = currentTurnId
              /\ currentThreadId' = currentThreadId]_vars

\* ---------------------------------------------------------------- tool items
\* The classification of a tool by its name
ItemTypeOf(name) ==
    IF name \in {"edit", "Edit", "write", "Write"} THEN "fileChange"
    ELSE "commandExecution"
KindOf(name) == IF name \in {"write", "Write"} THEN "create" ELSE "edit"
IsReadLike(name) == name \notin {"bash", "Bash", "edit", "Edit", "write", "Write"}

\* The item is what the claim says of a tool of this name.
ClassifiedAs(item, name) ==
    /\ item.type = ItemTypeOf(name)
    /\ ItemTypeOf(name) = "fileChange" =>
          Len(item.changes) = 1 /\ item.changes[1].kind = KindOf(name)
    /\ IsReadLike(name) => item.command # <<>>

\* C31: tool_execution_start writes one item/started and tool_execution_end
\* an item/completed, each classified by the tool name alone; the completed
\* item has the type of the item started at the tool_execution_start of the
\* call.
C31_ToolClassification ==
    /\ [][rx'.type = "tool_execution_start" =>
             /\ Len(io') = 1 /\ LinesOf(io', "item/started") = {1}
             /\ io'[1].params.item.id = rx'.toolCallId
             /\ ClassifiedAs(io'[1].params.item, rx'.toolName)]_vars
    /\ [][rx'.type = "tool_execution_end" =>
             /\ LinesOf(io', "item/completed") = {1}
             /\ io'[1].params.item.id = rx'.toolCallId
             /\ ClassifiedAs(io'[1].params.item, rx'.toolName)
             /\ rx'.toolCallId \in DOMAIN toolArgsCache =>
                   io'[1].params.item.type
                       = ItemTypeOf(toolArgsCache[rx'.toolCallId].toolName)]_vars

\* C31's case: a tool that is neither a command nor a file change, started
\* with arguments that name no path and no pattern, has just ended and its
\* item shows a command.
C31_Witness ==
    /\ rx.type = "tool_execution_end" /\ rx.toolName = "find"
    /\ Len(io) = 1 /\ io[1].params.item.type = "commandExecution"
    /\ io[1].params.item.command = <<"find \"", "\" in ", ".">>

\* C37: a file-change tool that ends with an error appends no fragment.
C37_FailedChangeNoFragment ==
    [][FileChangeEnd /\ rx'.isError => accumulatedDiff' = accumulatedDiff]_vars

\* C38: a tool call whose item is started (announced when the message stream
\* reported the call) is not started a second time at tool_execution_start.
C38_ToolItemStartedOnce ==
    [][rx'.type = "tool_execution_start"
       /\ rx'.toolCallId \notin DOMAIN toolArgsCache =>
          \A i \in LinesOf(io', "item/started") :
              io'[i].params.item.id \notin openItems]_vars

\* C39: the cwd of a tool item is the working directory the running agent was
\* spawned with.
C39_ItemCwdIsAgentCwd ==
    [][\A i \in LinesOf(io', "item/started") \cup LinesOf(io', "item/completed") :
          "cwd" \in DOMAIN io'[i].params.item =>
              /\ piProcess' \in DOMAIN procs'
              /\ io'[i].params.item.cwd = procs'[piProcess']]_vars

\* ----------------------------------------------------- the issues of a workspace
\* The step just taken settled a call of getGitHubIssues.
FetchedStep == rx'.type = "fetched"

\* C40: the outcome of a call is applied only when the call is the request
\* issued last and the active workspace is the one it was issued for; any
\* other completion leaves issues, isLoading and error as they were.
C40_OnlyCurrentFetchApplies ==
    /\ [][FetchedStep /\ hook'.state # hook.state =>
             /\ rx'.requestId = issued
             /\ rx'.workspaceId = hook.activeWorkspace]_vars
    /\ [][FetchedStep /\ (rx'.requestId # issued
                          \/ rx'.workspaceId # hook.activeWorkspace) =>
             hook'.state = hook.state]_vars
    /\ [][(FetchedStep /\ rx'.requestId = hook.requestIdRef
            /\ rx'.workspaceId = hook.activeWorkspace) =>
             /\ ~hook'.state.isLoading
             /\ IF rx'.success
                THEN hook'.state.issues[1].request = rx'.requestId
                     /\ hook'.state.error = <<>>
                ELSE hook'.state.issues = <<>> /\ hook'.state.error # <<>>]_vars

\* C40's case: a call issued for a workspace the user has left, and back to
\* which the user has come, has just settled after a later call of that
\* workspace was applied, and the issues shown are still those of the later one.
C40_Witness ==
    /\ rx.type = "fetched" /\ rx.success
    /\ rx.requestId < issued
    /\ rx.workspaceId = hook.activeWorkspace
    /\ hook.requestIdRef > rx.requestId + 1
    /\ Len(hook.state.issues) = 1
    /\ hook.state.issues[1].request = issued


=============================================================================
